---- MODULE Spec2Model ----
(***************************************************************************)
(* ArtMint: purchase settlement (webhook and manual fallback), checkout,   *)
(* resale and offers, modelled over the three external stores the handlers *)
(* mutate: the wallet documents (Firestore "wallets"), the asset metadata  *)
(* document (Contentstack art_metadata) and the per-user asset index       *)
(* (Firestore "user_assets").                                              *)
(*                                                                         *)
(* The settlement handlers are modelled one awaited store call per step,   *)
(* so that independent requests interleave where the code awaits. The      *)
(* three re-reads of art_metadata.current_owner in the fallback are taken  *)
(* together with the step before them: no operation writes that field, so  *)
(* the reads commute with every other step. The other route handlers are   *)
(* modelled as one step each.                                              *)
(*                                                                         *)
(* Reads through the delivery API (getAssetFromCDA) and through the        *)
(* management API (getAssetUsingAMV2API) both return the asset document.   *)
(* Amounts are whole currency units, so amount_total / 100 is exact.       *)
(*                                                                         *)
(* Specifications: Spec (settlement step by step), SpecWebhook (webhook    *)
(* deliveries of any event and signature), SpecAssets (PUT, publish,       *)
(* resale), SpecOfferRoutes (offer routes), SpecOfferSale (a sale under an *)
(* offer), SpecOffers and SpecOfferCalls (the offer library, whole calls   *)
(* and interleaved calls), SpecCheckout (checkout for any asset id),       *)
(* SpecFaults (settlement with throwing store calls), SpecPage (the        *)
(* success page that calls the fallback).                                  *)
(***************************************************************************)
EXTENDS Integers, Sequences, FiniteSets, TLC

VARIABLES wallets, asset, user_assets, sessions, offers, reqs, nextTx, page

vars == <<wallets, asset, user_assets, sessions, offers, reqs, nextTx, page>>

(***************************************************************************)
(* Bounds of the model                                                     *)
(***************************************************************************)
MaxSessions == 2
MaxReqs == 2
MaxOffers == 2
MaxMounts == 2
MaxRuns == 2

(***************************************************************************)
(* Program constants and value sets                                        *)
(***************************************************************************)
Users == {"u1", "u2", "u3"}
Artist == "u1"
AssetUid == "a1"
NoUser == "none"
\* An optional value (a param or field that may be undefined): <<>> or <<v>>.
None == <<>>
Some(v) == <<v>>
OrElse(opt, d) == IF opt = None THEN d ELSE opt[1]
Prices == {50, 100}
\* The role of each user's profile: the uploader and one more user signed up as
\* artists, one as a buyer.
Role == [u \in Users |-> IF u \in {"u1", "u3"} THEN "artist" ELSE "buyer"]
Statuses == {"sold", "sale", "resale"}
ResalePrices == {50}
CentsPerUnit == 100
CreatorTx == 0
NoTx == -1

OwnerRecord(u, tx) == [user_id |-> u, transaction_id |-> tx]
NoOwner == OwnerRecord(NoUser, NoTx)

Range(s) == {s[i] : i \in DOMAIN s}

(***************************************************************************)
(* lib/stripe                                                              *)
(***************************************************************************)
\* createCheckoutSession: unit_amount = Math.round(price * 100); the metadata
\* carries artworkId, userId and walletId (a user's wallet is named by the user).
createCheckoutSession(artworkId, price, userId, walletId) ==
    [artworkId |-> artworkId, userId |-> userId, walletId |-> walletId,
     amount_total |-> price * CentsPerUnit, payment_status |-> "unpaid"]

\* The payment intent of session s, as the event payload carries it (a string id).
EventPaymentIntent(s) == [expanded |-> FALSE, id |-> Some(s)]
\* getCheckoutSession retrieves with expand: ["payment_intent"] (an object).
RetrievedPaymentIntent(s) == [expanded |-> TRUE, id |-> Some(s)]
\* webhook: session.payment_intent as string
WebhookPaymentId(pi) == pi.id[1]
\* process: typeof payment_intent === "string" ? payment_intent : payment_intent?.id || session.id
ProcessPaymentId(pi, sessionId) ==
    IF ~pi.expanded THEN pi.id[1] ELSE OrElse(pi.id, sessionId)

\* The event types the payment processor delivers to the webhook.
EventTypes == {"checkout.session.completed", "payment_intent.payment_failed",
               "payment_intent.succeeded"}
\* The request body of a webhook delivery: an event of a type about session s.
Body(type, s) == [type |-> type, session |-> s]
\* STRIPE_WEBHOOK_SECRET, and a key that is not the secret.
WebhookSecret == "whsec"
SigningKeys == {WebhookSecret, "other"}
\* The stripe-signature header: a keyed digest of a payload.
sign(key, payload) == [key |-> key, payload |-> payload]

\* A verification that accepts every signature.
acceptAnySignature(payload, signature) == TRUE

\* verifyWebhookSignature (stripe.webhooks.constructEvent): the digest must be
\* of this payload under the webhook secret; otherwise it throws.
verifyWebhookSignature(payload, signature) ==
    signature.key = WebhookSecret /\ signature.payload = payload

\* The amount of the session taken in cents, without the conversion.
AmountInCents(session) == session.amount_total

\* amount = (session.amount_total || 0) / 100
AmountOf(session) == session.amount_total \div CentsPerUnit

(***************************************************************************)
(* lib/firebase-admin: wallet ledger                                       *)
(***************************************************************************)
Transaction(id, type, amount, assetUid, stripePaymentId) ==
    [id |-> id, type |-> type, amount |-> amount,
     assetUid |-> assetUid, stripePaymentId |-> stripePaymentId]

\* A write that replaces the stored array by the new element.
overwriteWith(arr, e) == <<e>>

\* FieldValue.arrayUnion: appends the element unless an equal one is present.
arrayUnion(arr, e) == IF e \in Range(arr) THEN arr ELSE Append(arr, e)

\* addServerTransaction, the balance computed from the balance that was read.
newBalance(type, currentBalance, amount) ==
    IF type = "CREDIT" THEN currentBalance + amount ELSE currentBalance - amount

\* addServerTransaction, walletRef.update: the balance is overwritten with the
\* value computed from the earlier read, the transaction is array-unioned.
walletUpdate(walletDoc, balance, transaction) ==
    [balance |-> balance, transactions |-> arrayUnion(walletDoc.transactions, transaction)]

\* calculateBalanceFromTransactions / the running balance of verifyLedgerIntegrity.
RECURSIVE calculateBalanceFromTransactions(_)
calculateBalanceFromTransactions(txs) ==
    IF txs = <<>> THEN 0
    ELSE LET n == Len(txs)
             rest == calculateBalanceFromTransactions(SubSeq(txs, 1, n - 1))
         IN IF txs[n].type = "CREDIT" THEN rest + txs[n].amount ELSE rest - txs[n].amount

\* verifyLedgerIntegrity: no "Balance mismatch" error (amounts are integers here,
\* so the 0.01 tolerance is equality).
BalanceMatches(walletDoc) ==
    calculateBalanceFromTransactions(walletDoc.transactions) = walletDoc.balance

(***************************************************************************)
(* lib/firebase-admin: user asset index                                    *)
(***************************************************************************)
IndexEntry(assetUid, transactionId, price) ==
    [assetUid |-> assetUid, transactionId |-> transactionId, price |-> price]

\* An addUserAsset that appends without looking for the asset in the list.
appendAlways(existingAssets, newAsset) == Append(existingAssets, newAsset)

\* addUserAsset: the list to write, from the list that was read.
addUserAssetList(existingAssets, newAsset) ==
    IF \E i \in DOMAIN existingAssets : existingAssets[i].assetUid = newAsset.assetUid
    THEN existingAssets
    ELSE Append(existingAssets, newAsset)

\* removeUserAsset: the list to write, from the list that was read.
removeUserAssetList(existingAssets, assetUid) ==
    LET keep(e) == e.assetUid # assetUid IN SelectSeq(existingAssets, keep)

(***************************************************************************)
(* lib/contentstack-am2: asset metadata                                    *)
(***************************************************************************)
\* updateAssetMetadata: the PUT body built from the asset that was read and the
\* params; an absent param keeps the read value. The body carries no
\* current_owner, so that field of the stored document is never written.
updateRequest(currentAsset, params) ==
    [artist_uid |-> currentAsset.artist_uid,
     title  |-> OrElse(params.title, currentAsset.title),
     price  |-> OrElse(params.price, currentAsset.price),
     status |-> OrElse(params.status, currentAsset.status),
     owners |-> OrElse(params.owners, currentAsset.owners)]

\* The stored document after the PUT.
putAsset(stored, request) ==
    [stored EXCEPT !.artist_uid = request.artist_uid, !.title = request.title,
                   !.price = request.price,
                   !.status = request.status, !.owners = request.owners]

Params(price, status, owners) ==
    [price |-> price, status |-> status, owners |-> owners, title |-> None]

\* addAssetOwner: the params handed to updateAssetMetadata, from the owners read.
addAssetOwnerParams(currentOwners, owner) ==
    Params(None, Some("sold"), Some(Append(currentOwners, owner)))

\* The last element of owners[] (resale route, PUT /assets/:id).
LastOwner(a) == IF Len(a.owners) > 0 THEN a.owners[Len(a.owners)].user_id ELSE NoUser

(***************************************************************************)
(* State after sign-up of the users and the upload of one artwork by the   *)
(* artist (uploadAsset + addUserAsset with transaction id CREATOR).        *)
(***************************************************************************)
\* The success page /success?session_id=...: the keys of sessionStorage, the
\* component instances that were mounted (each with its refs and state), the
\* instance that is mounted now, the invocations of processPurchase and the
\* POST /purchase/process requests that were sent.
PageSessionIds == {"cs_1", "cs_2"}
NoSessionId == "null"
NoInstance == 0
PageInit ==
    [storage |-> [sid \in PageSessionIds |-> [processing |-> FALSE, processed |-> FALSE]],
     inst |-> <<>>, mounted |-> NoInstance, runs |-> <<>>, posts |-> <<>>]

Init ==
    /\ wallets = [u \in Users |-> [balance |-> 0, transactions |-> <<>>]]
    /\ asset = [artist_uid |-> Artist, title |-> "t0", price |-> 100, status |-> "sale",
                owners |-> <<OwnerRecord(Artist, CreatorTx)>>,
                current_owner |-> NoOwner]
    /\ user_assets = [u \in Users |->
           IF u = Artist THEN <<IndexEntry(AssetUid, CreatorTx, 100)>> ELSE <<>>]
    /\ sessions = <<>>
    /\ offers = <<>>
    /\ reqs = <<>>
    /\ nextTx = 1
    /\ page = PageInit

(***************************************************************************)
(* Settlement requests. A request is one invocation of POST                *)
(* /purchase/webhook or POST /purchase/process; pc is the awaited call it  *)
(* is about to make. "wrote" records whether the invocation has written to *)
(* a wallet, the asset or a user index; "automation" whether it called     *)
(* triggerContentstackAutomation. Each step is a function of the stores    *)
(* and the request, so that a handler can also be run to completion.       *)
(***************************************************************************)
NoAsset == [artist_uid |-> NoUser, title |-> "", price |-> 0, status |-> "none",
            owners |-> <<>>, current_owner |-> NoOwner]

Stores == [wallets |-> wallets, asset |-> asset, user_assets |-> user_assets,
           nextTx |-> nextTx]

Request(kind, s, session, caller, pc) ==
    [kind |-> kind, session |-> s, caller |-> caller, pc |-> pc,
     userId |-> session.userId, walletId |-> session.walletId,
     amount |-> AmountOf(session),
     paymentId |-> IF kind = "webhook"
                   THEN WebhookPaymentId(EventPaymentIntent(s))
                   ELSE ProcessPaymentId(RetrievedPaymentIntent(s), s),
     txId |-> NoTx, bal |-> 0, ownersRead |-> <<>>, assetRead |-> NoAsset,
     prevOwner |-> NoUser, listRead |-> <<>>,
     status |-> 0, message |-> "", respTx |-> NoTx,
     wrote |-> FALSE, automation |-> FALSE,
     event |-> IF kind = "webhook" THEN "checkout.session.completed" ELSE "",
     signature |-> IF kind = "webhook"
                   THEN Some(sign(WebhookSecret, Body("checkout.session.completed", s)))
                   ELSE None]

\* The response of a finished request; the scratch reads are dropped.
Respond(q, status, message, respTx) ==
    [q EXCEPT !.pc = "done", !.status = status, !.message = message, !.respTx = respTx,
              !.bal = 0, !.ownersRead = <<>>, !.assetRead = NoAsset, !.listRead = <<>>]

Result(st, q) == [st |-> st, q |-> q]

\* A search of the wallet that never finds a transaction.
findNothing(txs, paymentId) == <<>>

\* wallet.transactions.find(t => t.reference.stripePaymentId === stripePaymentId)
findByPayment(txs, paymentId) ==
    LET hit(t) == t.stripePaymentId = paymentId IN SelectSeq(txs, hit)

\* wallet.transactions.find(t => t.reference.assetUid === artworkId &&
\*                               t.reference.stripePaymentId === stripePaymentId)
findByAssetAndPayment(txs, assetUid, paymentId) ==
    LET hit(t) == t.assetUid = assetUid /\ t.stripePaymentId = paymentId
    IN SelectSeq(txs, hit)

\* POST /purchase/webhook for a checkout.session.completed event: metadata and
\* amount are extracted and the transaction id is created (createTransactionId).
webhookStart(st, s, session) ==
    Result([st EXCEPT !.nextTx = @ + 1],
           [Request("webhook", s, session, "stripe", "tx_read") EXCEPT !.txId = st.nextTx])

\* The checks of process without the comparison of the caller with the buyer.
processGuardAnyCaller(session, caller) ==
    IF session.payment_status # "paid" THEN 400 ELSE 200

\* POST /purchase/process: the checks before any store is read.
processGuard(session, caller) ==
    IF session.payment_status # "paid" THEN 400
    ELSE IF caller # session.userId THEN 403
    ELSE 200

\* process: the early ownership check on art_metadata.current_owner decides
\* which search of the wallet follows.
earlyCheck(a, userId) ==
    IF a.current_owner.user_id = userId THEN "early_wallet" ELSE "wallet_check"

\* process up to the early ownership check: a request that fails the checks is
\* answered with the error status.
processStart(st, s, session, caller) ==
    LET guard == processGuard(session, caller)
        q == Request("process", s, session, caller, earlyCheck(st.asset, session.userId))
    IN Result(st, IF guard = 200 THEN q
                  ELSE Respond(q, guard, IF guard = 403 THEN "Unauthorized to process this purchase"
                                         ELSE "Payment not completed", NoTx))

\* process: getServerWallet and the search for an existing transaction; after the
\* ownership hit the search is by asset and payment id, otherwise by payment id.
\* When nothing is found the transaction id is created.
processWalletCheck(st, q) ==
    LET txs == st.wallets[q.walletId].transactions
        existing == IF q.pc = "early_wallet"
                    THEN findByAssetAndPayment(txs, AssetUid, q.paymentId)
                    ELSE findByPayment(txs, q.paymentId)
    IN IF existing # <<>>
       THEN Result(st, Respond(q, 200, "Purchase already processed", existing[1].id))
       ELSE IF q.pc = "early_wallet"
       THEN Result(st, [q EXCEPT !.pc = "wallet_check"])
       ELSE Result([st EXCEPT !.nextTx = @ + 1],
                   [q EXCEPT !.pc = "tx_read", !.txId = st.nextTx])

\* addServerTransaction: walletRef.get() and the balance it holds.
txRead(st, q) ==
    Result(st, [q EXCEPT !.pc = "tx_write", !.bal = st.wallets[q.walletId].balance])

\* The previous owner taken from the last element of owners[] instead.
previousOwnerFromOwners(a) == LastOwner(a)

\* process: previousOwnerId, from the re-read of art_metadata.current_owner.
previousOwnerId(a) == a.current_owner.user_id

\* addServerTransaction: walletRef.update with the new balance and the DEBIT. In
\* process the re-read of current_owner follows: when it already names the
\* buyer the handler answers success without the ownership and index steps.
txWrite(st, q) ==
    LET tx == Transaction(q.txId, "DEBIT", q.amount, AssetUid, q.paymentId)
        w == [q EXCEPT !.bal = 0, !.wrote = TRUE]
        st2 == [st EXCEPT !.wallets[q.walletId] =
                  walletUpdate(st.wallets[q.walletId],
                               newBalance("DEBIT", q.bal, q.amount), tx)]
    IN Result(st2,
         IF q.kind = "webhook" THEN [w EXCEPT !.pc = "owner_read"]
         ELSE IF previousOwnerId(st.asset) = q.userId
         THEN Respond(w, 200, "Purchase already processed (race condition handled)", q.txId)
         ELSE [w EXCEPT !.pc = "owner_read", !.prevOwner = previousOwnerId(st.asset)])

\* addAssetOwner: getAssetUsingAMV2API and the owners it holds.
ownerRead(st, q) ==
    Result(st, [q EXCEPT !.pc = "meta_read", !.ownersRead = st.asset.owners])

\* updateAssetMetadata: getAssetUsingAMV2API, to preserve the other fields.
metaRead(st, q) ==
    Result(st, [q EXCEPT !.pc = "meta_put", !.assetRead = st.asset])

\* A verification that always succeeds.
verifyAlways(a, userId, transactionId) == TRUE

\* process: the verification re-read; the automation is triggered only when
\* current_owner shows this user with this transaction id.
verifyOwnership(a, userId, transactionId) ==
    a.current_owner.user_id = userId /\ a.current_owner.transaction_id = transactionId

\* process: removeUserAsset is called when a previous owner was captured and it
\* differs from the buyer.
removesPrevious(prevOwner, userId) == prevOwner # NoUser /\ prevOwner # userId

\* updateAssetMetadata: the PUT of the request built from the two reads. In
\* process the verification re-read follows, then the previous owner's index.
metaPut(st, q) ==
    LET params == addAssetOwnerParams(q.ownersRead, OwnerRecord(q.userId, q.txId))
        stored == putAsset(st.asset, updateRequest(q.assetRead, params))
        w == [q EXCEPT !.ownersRead = <<>>, !.assetRead = NoAsset, !.wrote = TRUE]
    IN Result([st EXCEPT !.asset = stored],
         IF q.kind = "webhook" THEN [w EXCEPT !.pc = "idx_read"]
         ELSE [w EXCEPT !.automation = verifyOwnership(stored, q.userId, q.txId),
                        !.pc = IF removesPrevious(q.prevOwner, q.userId)
                               THEN "rm_read" ELSE "idx_read"])

\* removeUserAsset / addUserAsset: userAssetsRef.get().
idxRead(st, q) ==
    LET doc == IF q.pc = "rm_read" THEN q.prevOwner ELSE q.userId
    IN Result(st, [q EXCEPT !.pc = IF q.pc = "rm_read" THEN "rm_write" ELSE "idx_write",
                            !.listRead = st.user_assets[doc]])

\* removeUserAsset / addUserAsset: userAssetsRef.update (or set) when the list
\* changes; after addUserAsset the handler responds with success.
idxWrite(st, q) ==
    LET doc == IF q.pc = "rm_write" THEN q.prevOwner ELSE q.userId
        list == IF q.pc = "rm_write"
                THEN removeUserAssetList(q.listRead, AssetUid)
                ELSE addUserAssetList(q.listRead, IndexEntry(AssetUid, q.txId, q.amount))
        changed == list # q.listRead
        st2 == IF changed THEN [st EXCEPT !.user_assets[doc] = list] ELSE st
    IN Result(st2,
         IF q.pc = "rm_write"
         THEN [q EXCEPT !.pc = "idx_read", !.listRead = <<>>, !.wrote = (q.wrote \/ changed)]
         ELSE [Respond(q, 200, "Purchase processed successfully", q.txId)
                 EXCEPT !.wrote = (q.wrote \/ changed)])

\* The next awaited call of a request.
step(st, q) ==
    CASE q.pc \in {"early_wallet", "wallet_check"} -> processWalletCheck(st, q)
      [] q.pc = "tx_read" -> txRead(st, q)
      [] q.pc = "tx_write" -> txWrite(st, q)
      [] q.pc = "owner_read" -> ownerRead(st, q)
      [] q.pc = "meta_read" -> metaRead(st, q)
      [] q.pc = "meta_put" -> metaPut(st, q)
      [] q.pc \in {"rm_read", "idx_read"} -> idxRead(st, q)
      [] q.pc \in {"rm_write", "idx_write"} -> idxWrite(st, q)
      [] OTHER -> Result(st, q)

\* A handler run to its response with no other request in between.
RECURSIVE runAlone(_, _)
runAlone(st, q) ==
    IF q.pc = "done" THEN Result(st, q)
    ELSE LET res == step(st, q) IN runAlone(res.st, res.q)

runWebhook(st, s, session) ==
    LET res == webhookStart(st, s, session) IN runAlone(res.st, res.q)

runProcess(st, s, session, caller) ==
    LET res == processStart(st, s, session, caller) IN runAlone(res.st, res.q)

\* Messages of the errors the asset store and the index store throw.
ErrorMessages == {"Authentication failed. Please check your management token.",
                  "Firebase Admin database not initialized"}

\* The awaited calls after addServerTransaction whose throw reaches the handler.
ThrowingPcs == {"owner_read", "meta_read", "meta_put", "idx_read", "idx_write"}

\* A catch that takes the DEBIT back out of the wallet before answering.
throwCompensated(st, q, e) ==
    LET w == st.wallets[q.walletId]
        keep(t) == t.id # q.txId
    IN Result([st EXCEPT !.wallets[q.walletId] =
                 [balance |-> w.balance + q.amount,
                  transactions |-> SelectSeq(w.transactions, keep)]],
              Respond(q, 500, e, NoTx))

\* The awaited call of the request throws an error with message e. A throw of
\* addAssetOwner or addUserAsset reaches the handler's catch, which answers 500
\* with details: processingError.message; removeUserAsset logs its own error
\* and returns, and the handler goes on to addUserAsset.
throwStep(st, q, e) ==
    IF q.pc \in ThrowingPcs THEN Result(st, Respond(q, 500, e, NoTx))
    ELSE IF q.pc \in {"rm_read", "rm_write"}
    THEN Result(st, [q EXCEPT !.pc = "idx_read", !.listRead = <<>>])
    ELSE Result(st, q)

\* A handler run to its response alone, the call at position pc throwing e.
RECURSIVE runThrowing(_, _, _, _)
runThrowing(st, q, pc, e) ==
    IF q.pc = "done" THEN Result(st, q)
    ELSE LET res == IF q.pc = pc THEN throwStep(st, q, e) ELSE step(st, q)
         IN runThrowing(res.st, res.q, pc, e)

\* A handler for every event type.
handlesAnyEvent(type) == TRUE

\* webhook: if (event.type === "checkout.session.completed")
handlesSettlement(type) == type = "checkout.session.completed"

\* POST /purchase/webhook as a whole: the signature header is required and
\* verified, then only checkout.session.completed runs the settlement; every
\* other event is acknowledged with { received: true }.
webhookPost(st, body, signature, session) ==
    LET q == [Request("webhook", body.session, session, "stripe", "done")
                EXCEPT !.event = body.type, !.signature = signature]
    IN IF signature = None
       THEN Result(st, Respond(q, 400, "No signature provided", NoTx))
       ELSE IF ~verifyWebhookSignature(body, signature[1])
       THEN Result(st, Respond(q, 400, "Invalid signature", NoTx))
       ELSE IF handlesSettlement(body.type)
       THEN LET res == runWebhook(st, body.session, session)
            IN Result(res.st, [res.q EXCEPT !.event = body.type, !.signature = signature])
       ELSE Result(st, Respond(q, 200, "received", NoTx))

(***************************************************************************)
(* Settlement actions                                                      *)
(***************************************************************************)
CanStart == Len(reqs) < MaxReqs

SetStores(st) ==
    /\ wallets' = st.wallets
    /\ asset' = st.asset
    /\ user_assets' = st.user_assets
    /\ nextTx' = st.nextTx

\* checkout.session.completed is delivered for a paid session, any number of times.
WebhookStart(s) ==
    /\ CanStart
    /\ s \in DOMAIN sessions
    /\ sessions[s].payment_status = "paid"
    /\ LET res == webhookStart(Stores, s, sessions[s]) IN
         /\ SetStores(res.st)
         /\ reqs' = Append(reqs, res.q)
    /\ UNCHANGED <<sessions, offers, page>>

\* POST /purchase/process { sessionId } by an authenticated caller.
ProcessStart(s, caller) ==
    /\ CanStart
    /\ s \in DOMAIN sessions
    /\ LET res == processStart(Stores, s, sessions[s], caller) IN
         /\ SetStores(res.st)
         /\ reqs' = Append(reqs, res.q)
    /\ UNCHANGED <<sessions, offers, page>>

Do(r, pcs) ==
    /\ r \in DOMAIN reqs
    /\ reqs[r].pc \in pcs
    /\ LET res == step(Stores, reqs[r]) IN
         /\ SetStores(res.st)
         /\ reqs' = [reqs EXCEPT ![r] = res.q]
    /\ UNCHANGED <<sessions, offers, page>>

ProcessWalletCheck(r) == Do(r, {"early_wallet", "wallet_check"})
TxRead(r) == Do(r, {"tx_read"})
TxWrite(r) == Do(r, {"tx_write"})
OwnerRead(r) == Do(r, {"owner_read"})
MetaRead(r) == Do(r, {"meta_read"})
MetaPut(r) == Do(r, {"meta_put"})
IdxRead(r) == Do(r, {"rm_read", "idx_read"})
IdxWrite(r) == Do(r, {"rm_write", "idx_write"})

Settlement ==
    \/ \E s \in 1..MaxSessions : WebhookStart(s)
    \/ \E s \in 1..MaxSessions, u \in Users : ProcessStart(s, u)
    \/ \E r \in 1..MaxReqs :
         \/ ProcessWalletCheck(r)
         \/ TxRead(r)
         \/ TxWrite(r)
         \/ OwnerRead(r)
         \/ MetaRead(r)
         \/ MetaPut(r)
         \/ IdxRead(r)
         \/ IdxWrite(r)

(***************************************************************************)
(* lib/firebase-admin: offers                                              *)
(***************************************************************************)
\* createOffer: the offer document that is set, always pending.
createOffer(assetUid, buyerId, amount) ==
    [assetUid |-> assetUid, buyerId |-> buyerId, amount |-> amount,
     status |-> "pending", acceptedBy |-> NoUser]

\* getAssetOffers / the pending query: ids of the pending offers of an asset.
pendingOffers(offs, assetUid) ==
    {i \in DOMAIN offs : offs[i].assetUid = assetUid /\ offs[i].status = "pending"}

\* getAcceptedOffer(assetUid, buyerId): the first accepted offer of that buyer
\* for the asset (limit 1), or None.
getAcceptedOffer(offs, assetUid, buyerId) ==
    LET hits == {i \in DOMAIN offs : /\ offs[i].assetUid = assetUid
                                     /\ offs[i].status = "accepted"
                                     /\ offs[i].buyerId = buyerId}
    IN IF hits = {} THEN None
       ELSE Some(offs[CHOOSE i \in hits : \A j \in hits : i <= j])

\* updateOfferStatus throws unless the offer exists and is still pending.
updateOfferStatusThrows(offs, offerId) ==
    offerId \notin DOMAIN offs \/ offs[offerId].status # "pending"

\* updateOfferStatus: the offer takes the status; on acceptance every other
\* pending offer of the same asset is rejected in a batch.
updateOfferStatus(offs, offerId, status, ownerId) ==
    [i \in DOMAIN offs |->
       IF i = offerId
       THEN [offs[i] EXCEPT !.status = status,
                            !.acceptedBy = IF status = "accepted" THEN ownerId ELSE @]
       ELSE IF /\ status = "accepted"
               /\ offs[i].assetUid = offs[offerId].assetUid
               /\ offs[i].status = "pending"
            THEN [offs[i] EXCEPT !.status = "rejected"]
            ELSE offs[i]]

(***************************************************************************)
(* Route handlers modelled as one step                                     *)
(***************************************************************************)
\* POST /purchase/checkout: hasAcceptedOffer
hasAcceptedOffer(offs, uid) ==
    LET acceptedOffer == getAcceptedOffer(offs, AssetUid, uid)
    IN acceptedOffer # None /\ acceptedOffer[1].buyerId = uid

\* POST /purchase/checkout: the status of the response for requester uid.
checkoutStatus(a, offs, uid) ==
    LET isAvailableForSale == a.status = "sale" \/ a.status = "resale"
        isCurrentOwner == a.current_owner.user_id = uid
    IN IF a.price = 0 THEN 400
       ELSE IF ~isAvailableForSale /\ ~hasAcceptedOffer(offs, uid) THEN 400
       ELSE IF isCurrentOwner THEN 400
       ELSE IF a.artist_uid = uid THEN 400
       ELSE 200

\* POST /purchase/checkout: purchasePrice
purchasePrice(a, offs, uid) ==
    IF hasAcceptedOffer(offs, uid)
    THEN LET amt == getAcceptedOffer(offs, AssetUid, uid)[1].amount
         IN IF amt # 0 THEN amt ELSE a.price
    ELSE a.price

Checkout(uid) ==
    /\ LET st == checkoutStatus(asset, offers, uid) IN
         /\ st = 200 => Len(sessions) < MaxSessions
         /\ sessions' = IF st = 200
                        THEN Append(sessions,
                               createCheckoutSession(AssetUid,
                                   purchasePrice(asset, offers, uid), uid, uid))
                        ELSE sessions
    /\ UNCHANGED <<wallets, asset, user_assets, offers, reqs, nextTx, page>>

\* The buyer completes the hosted payment (payment processor).
Pay(s) ==
    /\ s \in DOMAIN sessions
    /\ sessions[s].payment_status = "unpaid"
    /\ sessions' = [sessions EXCEPT ![s].payment_status = "paid"]
    /\ UNCHANGED <<wallets, asset, user_assets, offers, reqs, nextTx, page>>

\* A resale check that lets every requester list.
resaleByAnyone(a, uid) == 200

\* POST /assets/:id/resale { price }: only the last element of owners[] may list.
resaleStatus(a, uid) == IF LastOwner(a) = uid THEN 200 ELSE 403

\* The response status of the resale handler and the asset it leaves:
\* updateAssetMetadata(assetUid, { price, currency, status: "resale" }).
resalePost(a, uid, price) ==
    LET st == resaleStatus(a, uid)
    IN [status |-> st,
        asset |-> IF st = 200
                  THEN putAsset(a, updateRequest(a, Params(Some(price), Some("resale"), None)))
                  ELSE a]

Resale(uid, price) ==
    /\ asset' = resalePost(asset, uid, price).asset
    /\ UNCHANGED <<wallets, user_assets, sessions, offers, reqs, nextTx, page>>

\* POST /assets/:id/offers { amount }
createOfferStatus(a, uid, amount) ==
    IF a.status # "sold" THEN 400
    ELSE IF a.current_owner.user_id = uid THEN 400
    ELSE IF ~(amount > 0) THEN 400
    ELSE 200

CreateOffer(uid, amount) ==
    /\ LET st == createOfferStatus(asset, uid, amount) IN
         /\ st = 200 => Len(offers) < MaxOffers
         /\ offers' = IF st = 200 THEN Append(offers, createOffer(AssetUid, uid, amount))
                      ELSE offers
    /\ UNCHANGED <<wallets, asset, user_assets, sessions, reqs, nextTx, page>>

\* The checks of PUT /assets/:id/offers/:offerId without the ownership check.
putOfferStatusAnyRequester(a, offs, uid, offerId) ==
    IF offerId \notin pendingOffers(offs, AssetUid) THEN 404 ELSE 200

\* PUT /assets/:id/offers/:offerId { status }
putOfferStatus(a, offs, uid, offerId) ==
    IF a.current_owner.user_id # uid THEN 403
    ELSE IF offerId \notin pendingOffers(offs, AssetUid) THEN 404
    ELSE 200

PutOffer(uid, offerId, status) ==
    /\ LET st == putOfferStatus(asset, offers, uid, offerId) IN
         /\ offers' = IF st = 200 THEN updateOfferStatus(offers, offerId, status, uid)
                      ELSE offers
         /\ asset' = IF st = 200 /\ status = "accepted"
                     THEN putAsset(asset, updateRequest(asset,
                                      Params(Some(offers[offerId].amount), None, None)))
                     ELSE asset
    /\ UNCHANGED <<wallets, user_assets, sessions, reqs, nextTx, page>>

\* PUT /assets/:id: the permission rules; the response status and the
\* updateData handed to updateAssetMetadata. title stands for title,
\* description and tags, which the handler treats alike.
putAssetUpdate(a, uid, body) ==
    LET isCurrentOwner == LastOwner(a) = uid
        isArtist == a.artist_uid = uid
        isArtistRole == Role[uid] = "artist"
        isSold == a.status = "sold"
        refused == [status |-> 403, updateData |-> Params(None, None, None)]
    IN IF ~isArtist /\ ~isCurrentOwner THEN refused
       ELSE IF body.title # None /\ ~isArtistRole THEN refused
       ELSE IF body.title # None /\ isSold THEN refused
       ELSE IF body.status # None /\ ~(isCurrentOwner /\ body.status = Some("resale"))
                                  /\ ~isArtistRole THEN refused
       ELSE [status |-> 200,
             updateData |-> [price |-> body.price, status |-> body.status,
                             owners |-> None, title |-> body.title]]

\* The request bodies of PUT /assets/:id that pass assetUpdateSchema.
UpdateBodies ==
    [price : {None, Some(50)}, status : {None} \cup {Some(s) : s \in Statuses},
     title : {None, Some("t1")}]

PutAsset(uid, body) ==
    /\ LET res == putAssetUpdate(asset, uid, body) IN
         asset' = IF res.status = 200
                  THEN putAsset(asset, updateRequest(asset, res.updateData))
                  ELSE asset
    /\ UNCHANGED <<wallets, user_assets, sessions, offers, reqs, nextTx, page>>

\* POST /assets/:id/publish: only a user with role artist, and only the asset's
\* artist; publishAsset sets status "sale".
publishStatus(a, uid) ==
    IF Role[uid] # "artist" THEN 403
    ELSE IF a.artist_uid # uid THEN 403
    ELSE 200

Publish(uid) ==
    /\ asset' = IF publishStatus(asset, uid) = 200
                THEN putAsset(asset, updateRequest(asset, Params(None, Some("sale"), None)))
                ELSE asset
    /\ UNCHANGED <<wallets, user_assets, sessions, offers, reqs, nextTx, page>>

\* The asset ids a request may name: the uploaded asset and one that is not in
\* the asset store.
AssetIds == {AssetUid, "a2"}

\* getAssetFromCDA: the delivery API answers 404 for an unknown id and the
\* function throws on every response that is not ok; otherwise it returns the
\* asset.
getAssetFromCDA(a, assetId) ==
    IF assetId # AssetUid
    THEN [threw |-> TRUE, asset |-> None]
    ELSE [threw |-> FALSE, asset |-> Some(a)]

\* POST /purchase/checkout { assetId }: the status of the response. A throw
\* is caught by the handler's catch and answered 500; a null asset is answered
\* 404; then the checks on the asset follow.
checkoutResponse(a, offs, uid, assetId) ==
    LET res == getAssetFromCDA(a, assetId)
    IN IF res.threw THEN 500
       ELSE IF res.asset = None THEN 404
       ELSE checkoutStatus(res.asset[1], offs, uid)

\* POST /purchase/checkout { assetId } with its response recorded.
CheckoutPost(uid, assetId) ==
    /\ CanStart
    /\ LET st == checkoutResponse(asset, offers, uid, assetId) IN
         /\ st = 200 => Len(sessions) < MaxSessions
         /\ sessions' = IF st = 200
                        THEN Append(sessions,
                               createCheckoutSession(assetId,
                                   purchasePrice(asset, offers, uid), uid, uid))
                        ELSE sessions
         /\ reqs' = Append(reqs, [kind |-> "checkout", caller |-> uid,
                                  assetId |-> assetId, status |-> st, pc |-> "done"])
    /\ UNCHANGED <<wallets, asset, user_assets, offers, nextTx, page>>

(***************************************************************************)
(* Spec: the settlement handlers, interleaved step by step, with checkout, *)
(* payment and resale listing.                                             *)
(***************************************************************************)
Routes ==
    \/ \E u \in Users : Checkout(u)
    \/ \E s \in 1..MaxSessions : Pay(s)
    \/ \E u \in Users, p \in ResalePrices : Resale(u, p)

Next == Settlement \/ Routes

Spec == Init /\ [][Next]_vars

(***************************************************************************)
(* SpecOfferRoutes: the offer routes with checkout, resale listing and     *)
(* settlement by the webhook run to completion.                            *)
(***************************************************************************)
SettleWebhook(s) ==
    /\ CanStart
    /\ s \in DOMAIN sessions
    /\ sessions[s].payment_status = "paid"
    /\ LET res == runWebhook(Stores, s, sessions[s]) IN
         /\ SetStores(res.st)
         /\ reqs' = Append(reqs, res.q)
    /\ UNCHANGED <<sessions, offers, page>>

OfferRoutesNext ==
    \/ \E u \in Users : Checkout(u)
    \/ \E s \in 1..MaxSessions : Pay(s) \/ SettleWebhook(s)
    \/ \E u \in Users, p \in ResalePrices : Resale(u, p)
    \/ \E u \in Users, amt \in Prices \cup {0} : CreateOffer(u, amt)
    \/ \E u \in Users, o \in 1..MaxOffers, st \in {"accepted", "rejected"} : PutOffer(u, o, st)

SpecOfferRoutes == Init /\ [][OfferRoutesNext]_vars

(***************************************************************************)
(* SpecAssets: the asset routes (PUT, publish, resale listing) with        *)
(* checkout, payment and settlement by the webhook run to completion.      *)
(***************************************************************************)
AssetsNext ==
    \/ \E u \in Users : Checkout(u)
    \/ \E s \in 1..MaxSessions : Pay(s) \/ SettleWebhook(s)
    \/ \E u \in Users, p \in ResalePrices : Resale(u, p)
    \/ \E u \in Users, body \in UpdateBodies : PutAsset(u, body)
    \/ \E u \in Users : Publish(u)

SpecAssets == Init /\ [][AssetsNext]_vars

(***************************************************************************)
(* SpecWebhook: deliveries to POST /purchase/webhook of any event type,    *)
(* with or without a signature, each handled to its response, with         *)
(* checkout and payment.                                                   *)
(***************************************************************************)
\* The signature headers a delivery about session s with this body may carry:
\* none, the processor's, one under another key, one of another payload.
Signatures(body) ==
    {None} \cup {Some(sign(k, body)) : k \in SigningKeys}
           \cup {Some(sign(WebhookSecret, Body(t, body.session))) : t \in EventTypes}

\* The processor signs checkout.session.completed only for a paid session.
Genuine(body, signature) ==
    (signature # None /\ verifyWebhookSignature(body, signature[1])
       /\ body.type = "checkout.session.completed")
    => sessions[body.session].payment_status = "paid"

WebhookPost(s, type, signature) ==
    /\ CanStart
    /\ s \in DOMAIN sessions
    /\ signature \in Signatures(Body(type, s))
    /\ Genuine(Body(type, s), signature)
    /\ LET res == webhookPost(Stores, Body(type, s), signature, sessions[s]) IN
         /\ SetStores(res.st)
         /\ reqs' = Append(reqs, res.q)
    /\ UNCHANGED <<sessions, offers, page>>

WebhookNext ==
    \/ \E u \in Users : Checkout(u)
    \/ \E s \in 1..MaxSessions : Pay(s)
    \/ \E s \in 1..MaxSessions, type \in EventTypes :
         \E signature \in Signatures(Body(type, s)) : WebhookPost(s, type, signature)

SpecWebhook == Init /\ [][WebhookNext]_vars

(***************************************************************************)
(* The offer library on its own: createOffer and updateOfferStatus called  *)
(* with any offer id, status and owner id, whatever route calls them.      *)
(***************************************************************************)
LibCreateOffer(uid, amount) ==
    /\ Len(offers) < MaxOffers
    /\ offers' = Append(offers, createOffer(AssetUid, uid, amount))
    /\ UNCHANGED <<wallets, asset, user_assets, sessions, reqs, nextTx, page>>

LibUpdateOfferStatus(offerId, status, ownerId) ==
    /\ ~updateOfferStatusThrows(offers, offerId)
    /\ offers' = updateOfferStatus(offers, offerId, status, ownerId)
    /\ UNCHANGED <<wallets, asset, user_assets, sessions, reqs, nextTx, page>>

OffersNext ==
    \/ \E u \in Users, amt \in Prices : LibCreateOffer(u, amt)
    \/ \E o \in 1..MaxOffers, st \in {"accepted", "rejected"}, u \in Users :
         LibUpdateOfferStatus(o, st, u)

SpecOffers == Init /\ [][OffersNext]_vars

(***************************************************************************)
(* SpecOfferSale: a sale under an offer. Offers are created through POST   *)
(* /assets/:id/offers and decided by updateOfferStatus called for the last *)
(* owner of owners[]; checkout, payment, settlement by the webhook run to  *)
(* completion, and resale listing.                                         *)
(***************************************************************************)
OfferSaleNext ==
    \/ \E u \in Users : Checkout(u)
    \/ \E s \in 1..MaxSessions : Pay(s) \/ SettleWebhook(s)
    \/ \E u \in Users, p \in ResalePrices : Resale(u, p)
    \/ \E u \in Users, amt \in Prices \cup {0} : CreateOffer(u, amt)
    \/ \E o \in 1..MaxOffers, st \in {"accepted", "rejected"} :
         LibUpdateOfferStatus(o, st, LastOwner(asset))

SpecOfferSale == Init /\ [][OfferSaleNext]_vars

(***************************************************************************)
(* SpecOfferCalls: calls of updateOfferStatus taken one awaited Firestore  *)
(* call at a time (offerRef.get, offerRef.update, the query and batch that *)
(* reject the other pending offers), interleaved with each other and with  *)
(* createOffer. reqs holds the calls; "began" remembers the other offers   *)
(* of the asset that were pending when the call began.                     *)
(***************************************************************************)
OfferCall(offerId, status, ownerId, began) ==
    [kind |-> "updateOfferStatus", offerId |-> offerId, status |-> status,
     ownerId |-> ownerId, pc |-> "get", began |-> began, result |-> "none"]

\* updateOfferStatus: offerRef.update({ status, acceptedBy })
setOfferStatus(offs, offerId, status, ownerId) ==
    [offs EXCEPT ![offerId] =
        [@ EXCEPT !.status = status,
                  !.acceptedBy = IF status = "accepted" THEN ownerId ELSE @]]

\* updateOfferStatus: the query for the pending offers of the asset and the
\* batch that rejects all of them but the accepted one.
rejectOtherPending(offs, offerId) ==
    [i \in DOMAIN offs |->
       IF i # offerId /\ offs[i].assetUid = offs[offerId].assetUid
                      /\ offs[i].status = "pending"
       THEN [offs[i] EXCEPT !.status = "rejected"]
       ELSE offs[i]]

CallStart(offerId, status, ownerId) ==
    /\ CanStart
    /\ offerId \in DOMAIN offers
    /\ reqs' = Append(reqs, OfferCall(offerId, status, ownerId,
                                      pendingOffers(offers, AssetUid) \ {offerId}))
    /\ UNCHANGED <<wallets, asset, user_assets, sessions, offers, nextTx, page>>

\* offerRef.get and the checks that throw.
CallGet(r) ==
    /\ r \in DOMAIN reqs
    /\ reqs[r].pc = "get"
    /\ reqs' = IF updateOfferStatusThrows(offers, reqs[r].offerId)
               THEN [reqs EXCEPT ![r].pc = "done", ![r].result = "throws"]
               ELSE [reqs EXCEPT ![r].pc = "update"]
    /\ UNCHANGED <<wallets, asset, user_assets, sessions, offers, nextTx, page>>

CallUpdate(r) ==
    /\ r \in DOMAIN reqs
    /\ reqs[r].pc = "update"
    /\ offers' = setOfferStatus(offers, reqs[r].offerId, reqs[r].status, reqs[r].ownerId)
    /\ reqs' = IF reqs[r].status = "accepted"
               THEN [reqs EXCEPT ![r].pc = "reject"]
               ELSE [reqs EXCEPT ![r].pc = "done", ![r].result = "ok"]
    /\ UNCHANGED <<wallets, asset, user_assets, sessions, nextTx, page>>

CallReject(r) ==
    /\ r \in DOMAIN reqs
    /\ reqs[r].pc = "reject"
    /\ offers' = rejectOtherPending(offers, reqs[r].offerId)
    /\ reqs' = [reqs EXCEPT ![r].pc = "done", ![r].result = "ok"]
    /\ UNCHANGED <<wallets, asset, user_assets, sessions, nextTx, page>>

OfferCallsNext ==
    \/ \E u \in Users, amt \in Prices : LibCreateOffer(u, amt)
    \/ \E o \in 1..MaxOffers, st \in {"accepted", "rejected"} : CallStart(o, st, Artist)
    \/ \E r \in 1..MaxReqs : CallGet(r) \/ CallUpdate(r) \/ CallReject(r)

SpecOfferCalls == Init /\ [][OfferCallsNext]_vars

(***************************************************************************)
(* SpecCheckout: POST /purchase/checkout for any asset id, each response   *)
(* recorded in reqs, with payment and resale listing.                      *)
(***************************************************************************)
CheckoutNext ==
    \/ \E u \in Users, id \in AssetIds : CheckoutPost(u, id)
    \/ \E s \in 1..MaxSessions : Pay(s)
    \/ \E u \in Users, p \in ResalePrices : Resale(u, p)

SpecCheckout == Init /\ [][CheckoutNext]_vars

(***************************************************************************)
(* SpecFaults: settlement step by step where an awaited call to the asset  *)
(* store or the index store may throw.                                     *)
(***************************************************************************)
Throw(r, e) ==
    /\ r \in DOMAIN reqs
    /\ reqs[r].pc \in ThrowingPcs \cup {"rm_read", "rm_write"}
    /\ LET res == throwStep(Stores, reqs[r], e) IN
         /\ SetStores(res.st)
         /\ reqs' = [reqs EXCEPT ![r] = res.q]
    /\ UNCHANGED <<sessions, offers, page>>

FaultsNext ==
    \/ Settlement
    \/ \E u \in Users : Checkout(u)
    \/ \E s \in 1..MaxSessions : Pay(s)
    \/ \E r \in 1..MaxReqs, e \in ErrorMessages : Throw(r, e)

SpecFaults == Init /\ [][FaultsNext]_vars

(***************************************************************************)
(* SpecPage: the success page. The signed-in user opens, reloads and       *)
(* leaves /success?session_id=...; the effect of SuccessContent schedules  *)
(* processPurchase, which waits and then posts to /purchase/process.       *)
(***************************************************************************)
\* setTimeout(resolve, 2000), in seconds.
DelaySeconds == 2

\* A newly rendered SuccessContent: useRef(false), useRef(false), useRef(null),
\* useState("idle"); cleanup tells whether the last effect run returned its
\* cleanup function.
SuccessContent(sessionId) ==
    [sessionId |-> sessionId, hasProcessedRef |-> FALSE, processingRef |-> FALSE,
     sessionIdRef |-> NoSessionId, processingStatus |-> "idle", cleanup |-> FALSE]

\* The body of useEffect(..., [sessionId, user]) for instance i.
effect(p, i) ==
    LET c == p.inst[i]
        sid == c.sessionId
        early == [p EXCEPT !.inst[i].cleanup = FALSE]
    IN IF p.storage[sid].processing THEN early
       ELSE IF c.sessionIdRef = sid /\ (c.hasProcessedRef \/ c.processingRef) THEN early
       ELSE IF c.hasProcessedRef \/ c.processingRef
       THEN [early EXCEPT !.inst[i].sessionIdRef = sid]
       ELSE [p EXCEPT !.inst[i].sessionIdRef = sid,
                      !.inst[i].processingRef = TRUE,
                      !.inst[i].cleanup = TRUE,
                      !.storage[sid].processing = TRUE,
                      !.runs = Append(@, [inst |-> i, sessionId |-> sid,
                                          pc |-> "delay", elapsed |-> 0])]

\* The cleanup function the effect returned, if its last run returned one.
cleanup(p, i) ==
    IF p.inst[i].cleanup
    THEN [p EXCEPT !.inst[i].processingRef = FALSE, !.inst[i].cleanup = FALSE]
    ELSE p

\* processPurchase after the delay: the re-check of the refs, then the fetch.
afterDelay(p, k, tokenOk) ==
    LET run == p.runs[k]
        c == p.inst[run.inst]
    IN IF c.hasProcessedRef \/ c.sessionIdRef # run.sessionId
       THEN [p EXCEPT !.inst[run.inst].processingRef = FALSE, !.runs[k].pc = "done"]
       ELSE IF ~tokenOk
       THEN [p EXCEPT !.inst[run.inst].processingStatus = "error",
                      !.inst[run.inst].processingRef = FALSE,
                      !.storage[run.sessionId].processing = FALSE,
                      !.runs[k].pc = "done"]
       ELSE [p EXCEPT !.inst[run.inst].processingStatus = "processing",
                      !.runs[k].pc = "await",
                      !.posts = Append(@, [sessionId |-> run.sessionId,
                                           inst |-> run.inst,
                                           waited |-> run.elapsed])]

\* The outcomes of the fetch: a 2xx response, another response whose message
\* says the purchase was already processed, any other response, a throw.
Responses == {"ok", "already", "failed", "threw"}

\* processPurchase after the fetch: response.ok, the else branch, the catch,
\* and the finally.
afterFetch(p, k, resp) ==
    LET run == p.runs[k]
        i == run.inst
        sid == run.sessionId
        fin == [p EXCEPT !.inst[i].processingRef = FALSE, !.runs[k].pc = "done"]
    IN CASE resp = "ok" ->
              [fin EXCEPT !.inst[i].processingStatus = "success",
                          !.inst[i].hasProcessedRef = TRUE,
                          !.storage[sid] = [processing |-> FALSE, processed |-> TRUE]]
         [] resp = "already" ->
              [fin EXCEPT !.inst[i].processingStatus = "success",
                          !.inst[i].hasProcessedRef = TRUE]
         [] resp = "failed" ->
              [fin EXCEPT !.inst[i].processingStatus = "error"]
         [] OTHER ->
              [fin EXCEPT !.inst[i].processingStatus = "error",
                          !.storage[sid].processing = FALSE]

PageOnly == UNCHANGED <<wallets, asset, user_assets, sessions, offers, reqs, nextTx>>

\* The page is opened or reloaded in the tab: a new instance, and its effect.
Mount(sid) ==
    /\ page.mounted = NoInstance
    /\ Len(page.inst) < MaxMounts
    /\ LET i == Len(page.inst) + 1
           p == [page EXCEPT !.inst = Append(@, SuccessContent(sid)), !.mounted = i]
       IN /\ (~effect(p, i).runs = p.runs) => Len(page.runs) < MaxRuns
          /\ page' = effect(p, i)
    /\ PageOnly

\* The page is left: the cleanup of the effect.
Unmount ==
    /\ page.mounted # NoInstance
    /\ page' = [cleanup(page, page.mounted) EXCEPT !.mounted = NoInstance]
    /\ PageOnly

\* A dependency of the effect changes: user (a new object from the auth
\* context) or sessionId (the query string): the cleanup, then the effect.
Rerun(sid) ==
    /\ page.mounted # NoInstance
    /\ LET i == page.mounted
           p == [cleanup(page, i) EXCEPT !.inst[i].sessionId = sid]
       IN /\ (~effect(p, i).runs = p.runs) => Len(page.runs) < MaxRuns
          /\ page' = effect(p, i)
    /\ PageOnly

\* A second of the delay passes for an invocation of processPurchase.
Tick(k) ==
    /\ k \in DOMAIN page.runs
    /\ page.runs[k].pc = "delay"
    /\ page.runs[k].elapsed < DelaySeconds
    /\ page' = [page EXCEPT !.runs[k].elapsed = @ + 1]
    /\ PageOnly

\* The timer fires.
AfterDelay(k, tokenOk) ==
    /\ k \in DOMAIN page.runs
    /\ page.runs[k].pc = "delay"
    /\ page.runs[k].elapsed = DelaySeconds
    /\ page' = afterDelay(page, k, tokenOk)
    /\ PageOnly

\* The fetch settles.
AfterFetch(k, resp) ==
    /\ k \in DOMAIN page.runs
    /\ page.runs[k].pc = "await"
    /\ page' = afterFetch(page, k, resp)
    /\ PageOnly

PageNext ==
    \/ \E sid \in PageSessionIds : Mount(sid)
    \/ Unmount
    \/ \E sid \in PageSessionIds : Rerun(sid)
    \/ \E k \in 1..MaxRuns : Tick(k)
    \/ \E k \in 1..MaxRuns, tokenOk \in BOOLEAN : AfterDelay(k, tokenOk)
    \/ \E k \in 1..MaxRuns, resp \in Responses : AfterFetch(k, resp)

SpecPage == Init /\ [][PageNext]_vars

(***************************************************************************)
(* Properties                                                              *)
(***************************************************************************)
Buyer(s) == sessions[s].userId
PaidSessions == {s \in DOMAIN sessions : sessions[s].payment_status = "paid"}
RequestsOf(s) == {r \in DOMAIN reqs : reqs[r].session = s}
Settling(s) == {r \in RequestsOf(s) : reqs[r].status # 403 /\ reqs[r].status # 400}
AllDone == \A r \in DOMAIN reqs : reqs[r].pc = "done"
\* Positions of the ledger transactions of a wallet that carry a payment id.
LedgerOf(walletDoc, paymentId) ==
    {i \in DOMAIN walletDoc.transactions :
        walletDoc.transactions[i].stripePaymentId = paymentId}
\* The payment of session s has not been recorded in the buyer's wallet.
Unsettled(st, s) == LedgerOf(st.wallets[Buyer(s)], s) = {}
Listed(idx, u) == \E i \in DOMAIN idx[u] : idx[u][i].assetUid = AssetUid
SameStores(a, b) ==
    a.wallets = b.wallets /\ a.asset = b.asset /\ a.user_assets = b.user_assets

\* C1: once one webhook delivery and one fallback call for a payment have both
\* responded, whatever their interleaving, the buyer's wallet holds exactly one
\* ledger transaction with that payment id.
C1_OneTransactionPerPayment ==
    \A s \in DOMAIN sessions :
        LET rs == Settling(s) IN
        (/\ Cardinality({r \in rs : reqs[r].kind = "webhook"}) = 1
         /\ Cardinality({r \in rs : reqs[r].kind = "process"}) = 1
         /\ \A r \in rs : reqs[r].pc = "done")
        => Cardinality(LedgerOf(wallets[Buyer(s)], s)) = 1

\* C2: when a webhook delivery has recorded the settlement of a payment, a call
\* to process for the same session by the buyer answers 200 "Purchase already
\* processed" with the id of the first transaction of that payment, writes
\* nothing and leaves the stores as they were; a request that gave that answer
\* has written nothing.
C2_ProcessAfterWebhook ==
    /\ \A s \in PaidSessions :
         (\E r \in RequestsOf(s) : reqs[r].kind = "webhook" /\ reqs[r].pc = "done")
         => LET res == runProcess(Stores, s, sessions[s], Buyer(s))
                txs == wallets[Buyer(s)].transactions
                first == CHOOSE i \in LedgerOf(wallets[Buyer(s)], s) :
                            \A j \in LedgerOf(wallets[Buyer(s)], s) : i <= j
            IN /\ res.q.status = 200
               /\ res.q.message = "Purchase already processed"
               /\ res.q.respTx = txs[first].id
               /\ ~res.q.wrote
               /\ res.st = Stores
    /\ \A r \in DOMAIN reqs :
         (reqs[r].pc = "done" /\ reqs[r].message = "Purchase already processed")
         => ~reqs[r].wrote /\ reqs[r].status = 200

\* C2 witness: a webhook delivery settled the payment, a later call to process
\* answered "Purchase already processed", and one DEBIT is in the wallet.
C2_Witness ==
    \E s \in PaidSessions, r1, r2 \in DOMAIN reqs :
        /\ r1 < r2
        /\ reqs[r1].session = s /\ reqs[r1].kind = "webhook" /\ reqs[r1].pc = "done"
        /\ reqs[r2].session = s /\ reqs[r2].kind = "process" /\ reqs[r2].pc = "done"
        /\ reqs[r2].message = "Purchase already processed"
        /\ reqs[r2].respTx = reqs[r1].txId
        /\ Cardinality(LedgerOf(wallets[Buyer(s)], s)) = 1

\* C3: delivering the same checkout.session.completed event to the webhook
\* twice leaves the wallets, the asset and the user indexes as one delivery does.
C3_WebhookIdempotent ==
    \A s \in PaidSessions :
        LET once == runWebhook(Stores, s, sessions[s]).st
            twice == runWebhook(once, s, sessions[s]).st
        IN SameStores(once, twice)

\* C4: the balance of every wallet equals the signed sum of its transactions
\* (CREDIT adds, DEBIT subtracts), whatever the interleaving of the calls to
\* addServerTransaction.
C4_BalanceIsSignedSum ==
    \A u \in Users : BalanceMatches(wallets[u])

\* C5: after any sequence of createOffer and updateOfferStatus (accept, reject)
\* on one asset, at most one offer of that asset has status accepted.
C5_AtMostOneAccepted ==
    Cardinality({i \in DOMAIN offers :
                    offers[i].assetUid = AssetUid /\ offers[i].status = "accepted"}) <= 1

\* C6: for an asset with status sale and price 100 and a paid session with
\* amount_total 10000 that is not yet settled, a settlement (by the webhook, or
\* by process called by the buyer) makes the buyer the last owner of the asset,
\* sets status sold, and leaves in the buyer's wallet exactly one transaction
\* with the payment id: a DEBIT of 100 that references the asset.
SettledAsSold(st, s) ==
    LET txs == st.wallets[Buyer(s)].transactions
        ledger == LedgerOf(st.wallets[Buyer(s)], s)
    IN /\ LastOwner(st.asset) = Buyer(s)
       /\ st.asset.status = "sold"
       /\ Cardinality(ledger) = 1
       /\ \A i \in ledger : /\ txs[i].type = "DEBIT"
                            /\ txs[i].amount = 100
                            /\ txs[i].assetUid = AssetUid

C6_SaleScenario ==
    \A s \in PaidSessions :
        (/\ asset.status = "sale" /\ asset.price = 100
         /\ sessions[s].amount_total = 10000
         /\ Unsettled(Stores, s))
        => /\ SettledAsSold(runWebhook(Stores, s, sessions[s]).st, s)
           /\ SettledAsSold(runProcess(Stores, s, sessions[s], Buyer(s)).st, s)

\* C6 witness: the one webhook delivery of the scenario has responded and the
\* stores show the sale.
C6_Witness ==
    /\ Len(reqs) = 1 /\ reqs[1].kind = "webhook" /\ reqs[1].pc = "done"
    /\ sessions[reqs[1].session].amount_total = 10000
    /\ Len(asset.owners) = 2
    /\ SettledAsSold(Stores, reqs[1].session)

\* C7: a step that creates a checkout session is taken only when (a) the asset
\* has status sale or resale, or status sold with an accepted offer of the
\* requester, and (b) the requester is neither the artist nor the current owner
\* (the last element of owners[]).
C7_CheckoutOnlyIfPurchasable ==
    [][Len(sessions') = Len(sessions) + 1 =>
         LET uid == sessions'[Len(sessions')].userId IN
            /\ \/ asset.status \in {"sale", "resale"}
               \/ asset.status = "sold" /\ hasAcceptedOffer(offers, uid)
            /\ uid # asset.artist_uid
            /\ uid # LastOwner(asset)]_vars

C10_PreviousOwnerUnlisted ==
    (reqs # <<>> /\ AllDone /\ Len(asset.owners) >= 2)
    => LET n == Len(asset.owners)
           buyer == asset.owners[n].user_id
           prev == asset.owners[n - 1].user_id
       IN prev # buyer
          => ~Listed(user_assets, prev) /\ Listed(user_assets, buyer)

\* A signature header that was made by the processor for this body: a digest
\* under the webhook secret of exactly this payload.
Authentic(body, signature) ==
    signature # None /\ signature[1] = sign(WebhookSecret, body)
Verified(q) == Authentic(Body(q.event, q.session), q.signature)

\* C11: the webhook runs the settlement only for checkout.session.completed:
\* a verified event of any other type is answered 200 and leaves the wallets,
\* the asset and the user indexes unchanged, and every delivery that wrote was
\* a checkout.session.completed event.
C11_OnlyCompletedSettles ==
    /\ \A s \in DOMAIN sessions : \A type \in EventTypes \ {"checkout.session.completed"} :
         LET body == Body(type, s)
             res == webhookPost(Stores, body, Some(sign(WebhookSecret, body)), sessions[s])
         IN res.q.status = 200 /\ ~res.q.wrote /\ res.st = Stores
    /\ \A r \in DOMAIN reqs :
         (reqs[r].kind = "webhook" /\ Verified(reqs[r])
            /\ reqs[r].event # "checkout.session.completed")
         => reqs[r].status = 200 /\ ~reqs[r].wrote
    /\ \A r \in DOMAIN reqs :
         (reqs[r].kind = "webhook" /\ reqs[r].wrote)
         => reqs[r].event = "checkout.session.completed"

\* C11 witness: a verified payment_intent.succeeded event about a paid session
\* was acknowledged with 200 and the payment is still unsettled, and a
\* checkout.session.completed event has settled another.
C11_Witness ==
    \E r1, r2 \in DOMAIN reqs :
        /\ reqs[r1].event = "payment_intent.succeeded" /\ Verified(reqs[r1])
        /\ reqs[r1].status = 200
        /\ sessions[reqs[r1].session].payment_status = "paid"
        /\ Unsettled(Stores, reqs[r1].session)
        /\ reqs[r2].event = "checkout.session.completed" /\ reqs[r2].wrote
        /\ reqs[r2].status = 200

\* C12: a webhook delivery with no signature header, or with a signature that
\* does not verify, is answered 400 and appends nothing to a ledger, changes no
\* owner and no user index, whatever event and session its body names.
C12_UnsignedRefused ==
    /\ \A s \in DOMAIN sessions : \A type \in EventTypes :
         \A signature \in Signatures(Body(type, s)) :
           ~Authentic(Body(type, s), signature)
           => LET res == webhookPost(Stores, Body(type, s), signature, sessions[s])
              IN res.q.status = 400 /\ ~res.q.wrote /\ res.st = Stores
    /\ \A r \in DOMAIN reqs :
         (reqs[r].kind = "webhook" /\ ~Verified(reqs[r]))
         => reqs[r].status = 400 /\ ~reqs[r].wrote /\ reqs[r].txId = NoTx

\* C12 witness: for a paid, unsettled session a delivery claiming
\* checkout.session.completed without a signature and one with a signature
\* under another key were both answered 400.
C12_Witness ==
    \E r1, r2 \in DOMAIN reqs :
        /\ reqs[r1].session = reqs[r2].session
        /\ reqs[r1].event = "checkout.session.completed"
        /\ reqs[r2].event = "checkout.session.completed"
        /\ reqs[r1].signature = None
        /\ reqs[r2].signature # None /\ reqs[r2].signature[1].key # WebhookSecret
        /\ reqs[r1].status = 400 /\ reqs[r2].status = 400
        /\ sessions[reqs[r1].session].payment_status = "paid"
        /\ Unsettled(Stores, reqs[r1].session)
        /\ asset.status = "sale"

\* C13: the status of the asset changes only from sale to sold, from resale to
\* sold, or from sold to resale, whatever operation is applied (settlement,
\* resale, PUT /assets/:id, publish).
C13_StatusTransitions ==
    [][asset'.status # asset.status =>
         <<asset.status, asset'.status>> \in
            {<<"sale", "sold">>, <<"resale", "sold">>, <<"sold", "resale">>}]_vars

\* C18: PUT /assets/:id with a title (description, tags) is accepted only from
\* the asset's artist while the status is not sold; from anyone else, or for a
\* sold asset, it is answered 403 and the asset is left unchanged.
C18_TitleOnlyByArtistUnsold ==
    \A u \in Users : \A body \in UpdateBodies :
        (body.title # None /\ ~(u = asset.artist_uid /\ asset.status # "sold"))
        => putAssetUpdate(asset, u, body).status = 403

\* C14: when a settlement completes for a buyer whose purchase was made under
\* an accepted offer (the asset was sold, owned by someone else, the payment
\* not yet recorded and priced by the offer, not by the listing), the
\* accepted-offer lookup for that buyer and asset returns no offer afterwards
\* and checkout no longer accepts that buyer.
C14_OfferClearedBySettlement ==
    [][(/\ Len(reqs') = Len(reqs) + 1
        /\ reqs'[Len(reqs')].pc = "done" /\ reqs'[Len(reqs')].wrote
        /\ Unsettled(Stores, reqs'[Len(reqs')].session)
        /\ asset.status = "sold" /\ LastOwner(asset) # reqs'[Len(reqs')].userId
        /\ hasAcceptedOffer(offers, reqs'[Len(reqs')].userId)
        /\ reqs'[Len(reqs')].amount =
              purchasePrice(asset, offers, reqs'[Len(reqs')].userId)
        /\ reqs'[Len(reqs')].amount # asset.price)
       => LET buyer == reqs'[Len(reqs')].userId IN
            /\ getAcceptedOffer(offers', AssetUid, buyer) = None
            /\ checkoutStatus(asset', offers', buyer) # 200]_vars

\* C15: PUT /assets/:id/offers/:offerId by a requester who is not the current
\* owner of the asset is answered 403, and such a request changes no offer
\* and leaves the asset, its price included, unchanged.
C15_OnlyOwnerDecidesOffers ==
    /\ [](\A u \in Users \ {LastOwner(asset)} : \A o \in 1..MaxOffers :
            putOfferStatus(asset, offers, u, o) = 403)
    /\ [][\A u \in Users \ {LastOwner(asset)} : \A o \in 1..MaxOffers :
            \A st \in {"accepted", "rejected"} :
               PutOffer(u, o, st) => (offers' = offers /\ asset' = asset)]_vars

\* C15 witness: the asset is sold, a pending offer is on it, and the maker of
\* the offer, who is not the owner, asks to accept it and is answered 403.
C15_Witness ==
    \E o \in DOMAIN offers :
        /\ asset.status = "sold"
        /\ offers[o].status = "pending"
        /\ offers[o].buyerId # LastOwner(asset)
        /\ putOfferStatus(asset, offers, offers[o].buyerId, o) = 403

\* C16: at the step at which a call that accepts an offer returns
\* successfully, every other offer of the asset that was pending when the
\* call began has status rejected.
C16_AcceptRejectsOthers ==
    [][\A r \in DOMAIN reqs :
         (/\ reqs[r].pc # "done" /\ reqs'[r].pc = "done"
          /\ reqs'[r].result = "ok" /\ reqs[r].status = "accepted")
         => \A o \in reqs[r].began : offers'[o].status = "rejected"]_vars

\* C17: a step that creates an offer record is taken only when the asset has
\* status sold, the requester is not the current owner of the asset (the last
\* element of owners[]) and the amount is greater than 0, and the new offer is
\* pending.
C17_CreateOfferOnlyIfAllowed ==
    [][Len(offers') = Len(offers) + 1 =>
         LET new == offers'[Len(offers')] IN
            /\ new.status = "pending"
            /\ asset.status = "sold"
            /\ new.buyerId # LastOwner(asset)
            /\ new.amount > 0]_vars

\* C19: the transaction list of every wallet is append-only: every step leaves
\* the transactions that were in the list in place, unmodified and in the
\* same order, and can only add transactions after them.
C19_LedgerAppendOnly ==
    [][\A u \in Users :
         LET old == wallets[u].transactions
             new == wallets'[u].transactions
         IN Len(new) >= Len(old) /\ SubSeq(new, 1, Len(old)) = old]_vars

\* C19 witness: a wallet to which a second transaction was appended after the
\* first, by two settlements.
C19_Witness ==
    \E u \in Users :
        /\ Len(wallets[u].transactions) = 2
        /\ wallets[u].transactions[1].id < wallets[u].transactions[2].id
        /\ AllDone /\ Len(reqs) = 2

\* C20: the owner record written by every settlement whose ownership transfer
\* succeeded is present in owners[], whatever the interleaving of the
\* transfers.
C20_OwnersAppendOnly ==
    \A r \in DOMAIN reqs :
        (reqs[r].pc = "done" /\ reqs[r].message = "Purchase processed successfully")
        => \E i \in DOMAIN asset.owners :
              asset.owners[i] = OwnerRecord(reqs[r].userId, reqs[r].txId)

\* C21: POST /purchase/checkout for an asset id that is not in the asset store
\* is answered 404 and creates no checkout session.
C21_UnknownAsset404 ==
    /\ \A r \in DOMAIN reqs :
         (reqs[r].kind = "checkout" /\ reqs[r].assetId # AssetUid)
         => reqs[r].status = 404
    /\ \A s \in DOMAIN sessions : sessions[s].artworkId = AssetUid

\* Fallback requests that ran the whole settlement and answered success.
ProcessedByFallback ==
    {r \in DOMAIN reqs : /\ reqs[r].kind = "process" /\ reqs[r].pc = "done"
                         /\ reqs[r].message = "Purchase processed successfully"}
\* The index entry a settlement request adds for its buyer.
AddedToIndex(q) ==
    \E i \in DOMAIN user_assets[q.userId] :
        user_assets[q.userId][i] = IndexEntry(AssetUid, q.txId, q.amount)

\* C22 (as the spec states it): a fallback settlement whose verification
\* re-read did not show the buyer with its transaction id skipped the index
\* maintenance: it added no entry to the buyer's index.
C22_VerifyFailureSkipsIndex ==
    \A r \in ProcessedByFallback :
        asset.current_owner # OwnerRecord(reqs[r].userId, reqs[r].txId)
        => ~AddedToIndex(reqs[r])

\* C22 (amended): a fallback settlement whose verification re-read does not
\* show the buyer as current_owner with the transaction id of this invocation
\* skips only the automation trigger; it still lists the asset in the buyer's
\* index and answers 200.
C22_VerifyFailureSkipsOnlyTrigger ==
    /\ \A r \in ProcessedByFallback :
         /\ reqs[r].status = 200
         /\ Listed(user_assets, reqs[r].userId)
         /\ asset.current_owner # OwnerRecord(reqs[r].userId, reqs[r].txId)
            => ~reqs[r].automation
    /\ \A s \in PaidSessions :
         Unsettled(Stores, s)
         => LET res == runProcess(Stores, s, sessions[s], Buyer(s))
            IN /\ res.q.status = 200
               /\ res.st.asset.current_owner # OwnerRecord(Buyer(s), res.q.txId)
                  => ~res.q.automation
               /\ Listed(res.st.user_assets, Buyer(s))

\* C22 witness: a fallback settlement has answered success without triggering
\* the automation and the entry it added is in the buyer's index.
C22_Witness ==
    \E r \in ProcessedByFallback :
        /\ ~reqs[r].automation
        /\ asset.current_owner # OwnerRecord(reqs[r].userId, reqs[r].txId)
        /\ AddedToIndex(reqs[r])
        /\ reqs[r].status = 200

\* The step of request r in which an awaited call after the ledger append
\* throws and the handler answers.
ThrowsAfterLedger(r) ==
    /\ r \in DOMAIN reqs /\ reqs[r].pc \in ThrowingPcs
    /\ reqs'[r].pc = "done" /\ reqs'[r].status = 500
HoldsDebit(walletDoc, q) ==
    \E i \in DOMAIN walletDoc.transactions :
        walletDoc.transactions[i].id = q.txId /\ walletDoc.transactions[i].type = "DEBIT"
\* A settlement run alone from store st in which the call at pc throws e.
ThrowingRun(s, pc, e) ==
    LET res == webhookStart(Stores, s, sessions[s]) IN runThrowing(res.st, res.q, pc, e)

\* C23 (as the spec states it): whenever the ownership write or the index
\* update throws after the ledger append, the handler answers 500, the DEBIT
\* stays in the wallet and the asset carries no ownership record of this
\* settlement.
C23_FailureLeavesAssetUnchanged ==
    [][\A r \in 1..MaxReqs :
         ThrowsAfterLedger(r)
         => /\ HoldsDebit(wallets'[reqs[r].walletId], reqs[r])
            /\ OwnerRecord(reqs[r].userId, reqs[r].txId) \notin Range(asset'.owners)]_vars

\* C23 (amended): when the ownership write or the index update throws after
\* the ledger append, the handler answers 500 with the message of the error
\* and undoes nothing: wallet, asset and index stay as they were when the call
\* threw, and the DEBIT is in the wallet. Run alone from an unsettled paid
\* session, a throw of the ownership write leaves the balance debited and the
\* asset as it was before the handler; a throw of the index update leaves the
\* balance debited, the buyer appended as owner, the status sold and the
\* buyer's index without the asset.
C23_NoCompensation ==
    /\ [][\A r \in 1..MaxReqs :
            ThrowsAfterLedger(r)
            => /\ wallets' = wallets /\ asset' = asset /\ user_assets' = user_assets
               /\ reqs'[r].message \in ErrorMessages
               /\ HoldsDebit(wallets'[reqs[r].walletId], reqs[r])]_vars
    /\ [](\A s \in PaidSessions : \A e \in ErrorMessages :
            Unsettled(Stores, s)
            => LET own == ThrowingRun(s, "meta_put", e)
                   idx == ThrowingRun(s, "idx_write", e)
                   debited == wallets[sessions[s].walletId].balance - AmountOf(sessions[s])
               IN /\ own.q.status = 500 /\ own.q.message = e
                  /\ HoldsDebit(own.st.wallets[own.q.walletId], own.q)
                  /\ own.st.wallets[own.q.walletId].balance = debited
                  /\ own.st.asset = asset
                  /\ own.st.user_assets = user_assets
                  /\ idx.q.status = 500 /\ idx.q.message = e
                  /\ HoldsDebit(idx.st.wallets[idx.q.walletId], idx.q)
                  /\ idx.st.wallets[idx.q.walletId].balance = debited
                  /\ idx.st.asset.owners
                       = Append(asset.owners, OwnerRecord(Buyer(s), idx.q.txId))
                  /\ idx.st.asset.status = "sold"
                  /\ idx.st.user_assets = user_assets)

\* C23 witness: a settlement was answered 500 after its index update threw:
\* its DEBIT is in the wallet, its ownership record is on the asset and the
\* buyer's index does not list the asset.
C23_Witness ==
    \E r \in DOMAIN reqs :
        /\ reqs[r].pc = "done" /\ reqs[r].status = 500
        /\ reqs[r].message \in ErrorMessages
        /\ HoldsDebit(wallets[reqs[r].walletId], reqs[r])
        /\ OwnerRecord(reqs[r].userId, reqs[r].txId) \in Range(asset.owners)
        /\ ~Listed(user_assets, reqs[r].userId)

\* C24: POST /assets/:id/resale by the last owner answers 200 and leaves the
\* asset with status resale and the requested price, every other field and the
\* owners unchanged; by anyone else it answers 403 and leaves the asset as it is.
C24_ResaleByOwnerOnly ==
    \A u \in Users : \A p \in ResalePrices :
        LET res == resalePost(asset, u, p)
            owner == asset.owners[Len(asset.owners)].user_id
        IN /\ u = owner => /\ res.status = 200
                           /\ res.asset = [asset EXCEPT !.status = "resale", !.price = p]
                           /\ res.asset.owners = asset.owners
           /\ u # owner => res.status = 403 /\ res.asset = asset

\* C24 witness: a buyer who is not the artist has listed the asset for resale.
C24_Witness ==
    /\ Len(asset.owners) > 1
    /\ LastOwner(asset) # Artist
    /\ asset.status = "resale"
    /\ asset.price \in ResalePrices
    /\ resalePost(asset, Artist, 50).status = 403

\* The requests the success page sent for a checkout session id.
PostsFor(sid) == {k \in DOMAIN page.posts : page.posts[k].sessionId = sid}

\* C25: for one checkout session id the success page sends POST
\* /purchase/process at most once, and only after the whole delay; effect
\* re-runs, re-mounts and failed responses cause no second request.
C25_AtMostOnePost ==
    /\ \A sid \in PageSessionIds : Cardinality(PostsFor(sid)) <= 1
    /\ \A k \in DOMAIN page.posts : page.posts[k].waited = DelaySeconds

\* C26: whenever a settlement entry point has answered success for a payment
\* (the "already processed" answers included), the asset carries an ownership
\* record of the paying buyer.
C26_SuccessMeansOwner ==
    \A r \in DOMAIN reqs :
        (reqs[r].pc = "done" /\ reqs[r].status = 200)
        => \E i \in DOMAIN asset.owners :
               /\ asset.owners[i].user_id = reqs[r].userId
               /\ asset.owners[i].transaction_id # CreatorTx

\* C27: POST /purchase/checkout for an asset whose status is sold succeeds only
\* for a requester who holds an offer accepted by the asset's current owner (the
\* last element of owners[]); an offer accepted by an earlier owner does not.
C27_SoldNeedsOfferOfCurrentOwner ==
    \A u \in Users :
        (asset.status = "sold" /\ checkoutStatus(asset, offers, u) = 200)
        => \E o \in DOMAIN offers :
               /\ offers[o].buyerId = u
               /\ offers[o].status = "accepted"
               /\ offers[o].acceptedBy = asset.owners[Len(asset.owners)].user_id

C29_DecidedOffersStay ==
    [][/\ \A o \in DOMAIN offers :
            offers'[o].status # offers[o].status
            => /\ offers[o].status = "pending"
               /\ offers'[o].status \in {"accepted", "rejected"}
       /\ \A r \in DOMAIN reqs :
            (/\ reqs[r].pc = "get" /\ reqs'[r].pc # "get"
             /\ offers[reqs[r].offerId].status # "pending")
            => reqs'[r].result = "throws" /\ offers' = offers]_vars

\* A list of index entries with no asset id at two positions.
ListsOnce(list) ==
    \A i, j \in DOMAIN list : list[i].assetUid = list[j].assetUid => i = j

\* C30: no user's asset index lists the same asset id at two positions, in any
\* state reached by interleaved settlements, and neither addUserAsset nor
\* removeUserAsset applied to a reachable index produces such a list.
C30_IndexListsAssetOnce ==
    \A u \in Users :
        /\ ListsOnce(user_assets[u])
        /\ ListsOnce(removeUserAssetList(user_assets[u], AssetUid))
        /\ \A tx \in 1..nextTx : \A p \in Prices :
              ListsOnce(addUserAssetList(user_assets[u], IndexEntry(AssetUid, tx, p)))

\* C30 witness: two settlements for the same buyer have both run addUserAsset
\* to the end and the buyer's index lists the asset.
C30_Witness ==
    \E r1, r2 \in DOMAIN reqs :
        /\ r1 # r2
        /\ reqs[r1].userId = reqs[r2].userId
        /\ reqs[r1].message = "Purchase processed successfully"
        /\ reqs[r2].message = "Purchase processed successfully"
        /\ Len(user_assets[reqs[r1].userId]) = 1
        /\ Listed(user_assets, reqs[r1].userId)

====
